---- MODULE Spec2Model ----
(***************************************************************************)
(* Model of the custom code-based evaluators of                            *)
(* labs/lab03-azure-ai-evaluations/evaluations/custom_evaluators/          *)
(* response_metrics.py: ResponseLengthEvaluator and CitationCountEvaluator.*)
(*                                                                         *)
(* A response is a sequence of one-character strings.  A score is kept as  *)
(* an integer number of hundredths (round(score, 2) * 100), computed from  *)
(* the exact rational value of the Python expression; the half-even        *)
(* rounding of round() is modelled by Round2.  For the thresholds and      *)
(* lengths tried here the exact value and the IEEE double the interpreter  *)
(* computes round to the same hundredth (a double may fall on the other    *)
(* side of a tie only for larger divisors, e.g. 3 * 5 / 1000).             *)
(***************************************************************************)
EXTENDS Integers, Sequences, FiniteSets

VARIABLES
    min_length,     \* ResponseLengthEvaluator.min_length
    max_length,     \* ResponseLengthEvaluator.max_length
    min_citations,  \* CitationCountEvaluator.min_citations
    response,       \* the response keyword argument of the call
    lenResult,      \* outcome of ResponseLengthEvaluator.__call__
    citResult,      \* outcome of CitationCountEvaluator.__call__
    log,            \* the calls made so far on the evaluator instance, oldest first
    attrs,          \* the attribute names of each evaluator instance (its __dict__)
    call,           \* concurrent callers: the evaluator and response of each caller's call
    pc,             \* concurrent callers: the line each caller's call is at
    frames,         \* concurrent callers: the local variables of each call frame
    ret,            \* concurrent callers: what each caller's call returned or raised
    thread,         \* LiveAgentTester: the messages of self.thread at the service
    sPc,            \* send_and_receive: where the call is
    accumulated,    \* send_and_receive: the deltas received from the stream
    nEvents,        \* send_and_receive: the number of stream events iterated
    tryRaised,      \* send_and_receive: an exception was raised inside the try block
    streamActive,   \* send_and_receive: the stream is open
    syncStarted,    \* send_and_receive: runs.create of the fallback was called
    submits,        \* send_and_receive: submissions of user_text, by runs.stream and runs.create
    sResult,        \* send_and_receive: the text returned
    metric_name,    \* analyze_results.determine_status: the metric name given
    status_score,   \* determine_status: the score given, in hundredths
    status,         \* determine_status: the mark returned
    jsonl,          \* prepare_test_data.validate_jsonl: the lines of the file
    lineNo,         \* validate_jsonl: the number of lines read
    warned,         \* validate_jsonl: the line numbers with a missing-fields warning
    valid,          \* validate_jsonl: what the call returned or raised
    endpoint,       \* run_evaluation.main: AZURE_AI_PROJECT_ENDPOINT
    data_file,      \* run_evaluation.main: the data file, its lines if it exists
    test_data,      \* run_evaluation.main: the items loaded
    rPc,            \* run_evaluation.main: where main is
    clients,        \* run_evaluation.main: the clients constructed
    evals,          \* run_evaluation.main: the evaluations created
    eval_runs,      \* run_evaluation.main: the content items of each eval run created
    run_status,     \* the status of the eval run at the service
    polled,         \* run_evaluation.main: run.status of the latest poll
    listings,       \* run_evaluation.main: the calls of output_items.list
    exit_code,      \* run_evaluation.main: what main returned
    cases,          \* run_intent_evaluation.main: the test cases loaded
    outcomes,       \* run_intent_evaluation.main: what the evaluator did on each case
    results,        \* run_intent_evaluation.main: results
    passed,         \* run_intent_evaluation.main: the passed count reported
    iPc,            \* run_intent_evaluation.main: where main is
    inputs,         \* live_agent_and_eval.main: what input() and the agent will do
    transcript,     \* live_agent_and_eval.main: tester.transcript
    handled,        \* live_agent_and_eval.main: the turns that send_and_receive returned
    saved,          \* live_agent_and_eval.main: the lines of the JSONL file written
    mPc             \* live_agent_and_eval.main: where main is

\* a harness session: repeated calls on one instance
sessVars == <<log, attrs>>

\* callers that invoke the evaluators at the same time
concVars == <<call, pc, frames, ret>>

\* LiveAgentTester.send_and_receive and the agent service
agentVars == <<thread, sPc, accumulated, nEvents, tryRaised, streamActive, syncStarted,
               submits, sResult>>

\* analyze_results.determine_status
statusVars == <<metric_name, status_score, status>>
\* prepare_test_data.validate_jsonl
jsonlVars == <<jsonl, lineNo, warned, valid>>
\* run_evaluation.main
runVars == <<endpoint, data_file, test_data, rPc, clients, evals, eval_runs, run_status,
             polled, listings, exit_code>>
\* run_intent_evaluation.main
intentVars == <<cases, outcomes, results, passed, iPc>>
\* live_agent_and_eval.main
mainVars == <<inputs, transcript, handled, saved, mPc>>
scriptVars == <<statusVars, jsonlVars, runVars, intentVars, mainVars>>

\* the evaluators and the agent tester
coreVars == <<min_length, max_length, min_citations, response, lenResult, citResult,
              sessVars, concVars, agentVars>>

vars == <<coreVars, scriptVars>>

\* ---------------------------------------------------------------- bounds

\* thresholds -MaxCfg..MaxCfg are tried for min_length and max_length
MaxCfg == 7
\* the longest response of one repeated character given to the length evaluator
MaxLen == 52
\* every response over {"a", " "} up to this length is given to the length evaluator
MaxShort == 4

\* every concatenation of up to MaxFrags fragments is given to the citation evaluator
MaxFrags == 3
\* thresholds -1..MaxMinCitations, and WideMinCitations, are tried for min_citations
MaxMinCitations == 3
WideMinCitations == 7

\* a session makes up to MaxCalls calls on one instance, with responses of up to
\* MaxSessLen characters and thresholds -1..MaxSessCfg
MaxCalls == 3
MaxSessLen == 3
MaxSessCfg == 2

\* the number of callers that invoke the evaluators concurrently
NumCallers == 2

\* responses of DefaultMaxLength - MaxOver .. DefaultMaxLength + MaxOver characters are
\* given to the length evaluator with the default max_length
MaxOver == 3

\* the scores 0, 0.25, .. up to 0.25 * MaxScoreSteps are given to determine_status
MaxScoreSteps == 20

\* a JSONL file given to validate_jsonl has up to MaxJsonlLines lines
MaxJsonlLines == 2

\* the data file of run_evaluation.main has up to MaxRunLines lines
MaxRunLines == 2

\* run_intent_evaluation.main loads up to MaxCases test cases
MaxCases == 3

\* the interactive loop of live_agent_and_eval.main reads up to MaxInputs lines
MaxInputs == 3

\* a stream yields up to MaxEvents events; a message content has up to MaxParts parts
MaxEvents == 2
MaxParts == 2

\* defaults of ResponseLengthEvaluator.__init__ and CitationCountEvaluator.__init__
DefaultMinLength == 50
DefaultMaxLength == 1000
DefaultMinCitations == 1

\* ---------------------------------------------------------------- helpers

Pending == [outcome |-> "pending"]
Returned(rec) == [outcome |-> "returned", record |-> rec]
Raised(exc) == [outcome |-> "raised", exception |-> exc]

WhitespaceChars == {" ", "\t", "\n", "\r"}
DigitChars == {"0", "1", "2", "3", "4", "5", "6", "7", "8", "9"}

IsSpace(c) == c \in WhitespaceChars
IsDigit(c) == c \in DigitChars

\* mutant of WordCount: response.split(" "), one more than the number of blanks
WordCountBySpaces(s) == Cardinality({i \in 1..Len(s) : IsSpace(s[i])}) + 1

\* len(response.split()): the number of maximal runs of non-whitespace characters
WordCount(s) ==
    Cardinality({i \in 1..Len(s) :
        /\ ~IsSpace(s[i])
        /\ (i = 1 \/ IsSpace(s[i - 1]))})

\* round(num/den, 2) in hundredths, den > 0: round-half-to-even as Python's round()
Round2(num, den) ==
    LET n == 100 * num
        q == n \div den
        r == n % den
    IN  IF 2 * r < den THEN q
        ELSE IF 2 * r > den THEN q + 1
        ELSE IF q % 2 = 0 THEN q ELSE q + 1

\* max(0, num/den) as a fraction, den # 0
Max0(num, den) ==
    IF den > 0
    THEN (IF num < 0 THEN <<0, 1>> ELSE <<num, den>>)
    ELSE (IF num > 0 THEN <<0, 1>> ELSE <<-num, -den>>)

\* ------------------------------------------- ResponseLengthEvaluator

\* mutant of TooShortScore: the factor 3 is missing
TooShortScoreNoFactor(length, minl) == Max0(length, minl)

\* max(0, (length / self.min_length) * 3)
TooShortScore(length, minl) == Max0(3 * length, minl)

\* mutant of TooLongScore: the factor 2 is missing
TooLongScoreNoFactor(length, maxl) == Max0(5 * maxl - (length - maxl), maxl)

\* max(0, 5 - ((length - self.max_length) / self.max_length) * 2)
TooLongScore(length, maxl) == Max0(5 * maxl - 2 * (length - maxl), maxl)

\* mutant of LengthScore: length <= self.min_length counts as too short
LengthScoreOffByOne(length, minl, maxl) ==
    IF length <= minl
    THEN (IF minl = 0 THEN <<0, 0>> ELSE TooShortScore(length, minl))
    ELSE IF length > maxl
    THEN (IF maxl = 0 THEN <<0, 0>> ELSE TooLongScore(length, maxl))
    ELSE <<5, 1>>

\* the if / elif / else of __call__; <<num, den>>, or <<0, 0>> for a division by zero
LengthScore(length, minl, maxl) ==
    IF length < minl
    THEN (IF minl = 0 THEN <<0, 0>> ELSE TooShortScore(length, minl))
    ELSE IF length > maxl
    THEN (IF maxl = 0 THEN <<0, 0>> ELSE TooLongScore(length, maxl))
    ELSE <<5, 1>>

\* mutant of IsWithinRange: the bounds are exclusive
IsWithinRangeExclusive(length, minl, maxl) == minl < length /\ length < maxl

\* self.min_length <= length <= self.max_length
IsWithinRange(length, minl, maxl) == minl <= length /\ length <= maxl

ResponseLengthCall(minl, maxl, s) ==
    LET length == Len(s)
        word_count == WordCount(s)
        is_within_range == IsWithinRange(length, minl, maxl)
        score == LengthScore(length, minl, maxl)
    IN  IF score[2] = 0
        THEN Raised("ZeroDivisionError")
        ELSE Returned([response_length_chars |-> length,
                       response_length_words |-> word_count,
                       response_length_within_range |-> is_within_range,
                       response_length_score |-> Round2(score[1], score[2])])

\* mutant of ResponseLengthInvoke: the signature has no **kwargs
ResponseLengthInvokeStrict(minl, maxl, s, kwargs) ==
    IF kwargs # {} THEN Raised("TypeError") ELSE ResponseLengthCall(minl, maxl, s)

\* __call__(self, *, response: str, **kwargs): the extra keyword arguments are bound
\* to kwargs and the body never reads them
ResponseLengthInvoke(minl, maxl, s, kwargs) == ResponseLengthCall(minl, maxl, s)

\* the attributes __init__ sets
ResponseLengthSelf(minl, maxl) == [min_length |-> minl, max_length |-> maxl]

\* mutant of LengthSelfAfterCall: the length is stored in self.min_length
LengthSelfClobbered(self, s) == [self EXCEPT !.min_length = Len(s)]

\* mutant of LengthSelfAfterCall: the record returned is kept in self.last_result
LengthSelfRetains(self, s) ==
    [a \in DOMAIN self \cup {"last_result"} |->
        IF a \in DOMAIN self
        THEN self[a]
        ELSE ResponseLengthCall(self.min_length, self.max_length, s)]

\* the instance after __call__: the body assigns local names only, no self.<name>
LengthSelfAfterCall(self, s) == self

\* ------------------------------------------- CitationCountEvaluator

\* regular-expression elements: a literal character, \s+ and \d+
Lit(c) == [kind |-> "lit", ch |-> c]
SpacePlus == [kind |-> "plus", cls |-> "s"]
DigitPlus == [kind |-> "plus", cls |-> "d"]

InClass(cls, c) == IF cls = "s" THEN IsSpace(c) ELSE IsDigit(c)

DocumentWord == <<Lit("D"), Lit("o"), Lit("c"), Lit("u"), Lit("m"), Lit("e"), Lit("n"), Lit("t")>>
SourceWord == <<Lit("S"), Lit("o"), Lit("u"), Lit("r"), Lit("c"), Lit("e")>>

\* r'Document\s+\d+'
PatDocument == DocumentWord \o <<SpacePlus, DigitPlus>>
\* r'\[\d+\]'
PatBracket == <<Lit("["), DigitPlus, Lit("]")>>
\* r'\(Source\s+\d+\)'
PatParenSource == <<Lit("(")>> \o SourceWord \o <<SpacePlus, DigitPlus, Lit(")")>>
\* r'\(Document\s+\d+\)'
PatParenDocument == <<Lit("(")>> \o DocumentWord \o <<SpacePlus, DigitPlus, Lit(")")>>

\* the patterns list of __call__
Patterns == <<PatDocument, PatBracket, PatParenSource, PatParenDocument>>

\* the number of consecutive characters of class cls in s from position i on
RECURSIVE RunLength(_, _, _)
RunLength(cls, s, i) ==
    IF i <= Len(s) /\ InClass(cls, s[i]) THEN 1 + RunLength(cls, s, i + 1) ELSE 0

\* The regular-expression engine: elements k.. of pat matched against s from position
\* i on.  The position after the match, or 0 when there is none.  A + element is
\* greedy and gives characters back one at a time when the rest fails.
RECURSIVE MatchFrom(_, _, _, _)
RECURSIVE TryPlus(_, _, _, _, _)
MatchFrom(pat, k, s, i) ==
    IF k > Len(pat) THEN i
    ELSE IF pat[k].kind = "lit"
    THEN (IF i <= Len(s) /\ s[i] = pat[k].ch THEN MatchFrom(pat, k + 1, s, i + 1) ELSE 0)
    ELSE TryPlus(pat, k, s, i, RunLength(pat[k].cls, s, i))

TryPlus(pat, k, s, i, n) ==
    IF n = 0 THEN 0
    ELSE LET e == MatchFrom(pat, k + 1, s, i + n)
         IN  IF e # 0 THEN e ELSE TryPlus(pat, k, s, i, n - 1)

\* len(re.findall(pattern, response)): scan from the left, resume after each match
RECURSIVE FindallCount(_, _, _)
FindallCount(pat, s, pos) ==
    IF pos > Len(s) THEN 0
    ELSE LET e == MatchFrom(pat, 1, s, pos)
         IN  IF e # 0 THEN 1 + FindallCount(pat, s, e) ELSE FindallCount(pat, s, pos + 1)

\* mutant of CitationCountFrom: citation_count = len(matches), the last pattern wins
CitationCountLastOnly(k, s) == FindallCount(Patterns[Len(Patterns)], s, 1)

\* the for loop over patterns: citation_count += len(matches)
RECURSIVE CitationCountFrom(_, _)
CitationCountFrom(k, s) ==
    IF k > Len(Patterns) THEN 0
    ELSE FindallCount(Patterns[k], s, 1) + CitationCountFrom(k + 1, s)

CitationCount(s) == CitationCountFrom(1, s)

\* mutant of HasSufficientCitations: the comparison is strict
HasSufficientCitationsStrict(count, minc) == count > minc

\* citation_count >= self.min_citations
HasSufficientCitations(count, minc) == count >= minc

\* mutant of CitationScore: the bonus is not capped at 5
CitationScoreNoCap(count, minc) ==
    IF count = 0 THEN 0
    ELSE IF count < minc THEN Round2(3 * count, minc)
    ELSE Round2(6 + (count - minc), 2)

\* mutant of CitationScore: a citation short of min_citations is scored on 5, not 3
CitationScoreScaleFive(count, minc) ==
    IF count = 0 THEN 0
    ELSE IF count < minc THEN Round2(5 * count, minc)
    ELSE LET num == 6 + (count - minc)
         IN  IF num > 10 THEN Round2(5, 1) ELSE Round2(num, 2)

\* the if / elif / else of __call__, in hundredths after round(score, 2);
\* min(5, 3 + (citation_count - self.min_citations) * 0.5) is min(5, num / 2)
CitationScore(count, minc) ==
    IF count = 0 THEN 0
    ELSE IF count < minc THEN Round2(3 * count, minc)
    ELSE LET num == 6 + (count - minc)
         IN  IF num > 10 THEN Round2(5, 1) ELSE Round2(num, 2)

CitationCountCall(minc, s) ==
    LET citation_count == CitationCount(s)
    IN  Returned([citation_count |-> citation_count,
                  has_sufficient_citations |-> HasSufficientCitations(citation_count, minc),
                  citation_score |-> CitationScore(citation_count, minc)])

\* __call__(self, *, response: str, **kwargs): kwargs is never read
CitationCountInvoke(minc, s, kwargs) == CitationCountCall(minc, s)

\* the attribute __init__ sets
CitationCountSelf(minc) == [min_citations |-> minc]

\* the instance after __call__: the body assigns local names only, no self.<name>
CitationSelfAfterCall(self, s) == self

\* the attribute names of the two instances after construction
ConstructedAttrs ==
    [length |-> DOMAIN ResponseLengthSelf(DefaultMinLength, DefaultMaxLength),
     citation |-> DOMAIN CitationCountSelf(DefaultMinCitations)]

\* no concurrent caller
NoCallers == call = <<>> /\ pc = <<>> /\ frames = <<>> /\ ret = <<>>

\* no LiveAgentTester at work
NoAgent ==
    /\ thread = <<>>
    /\ sPc = "none"
    /\ accumulated = <<>>
    /\ nEvents = 0
    /\ tryRaised = FALSE
    /\ streamActive = FALSE
    /\ syncStarted = FALSE
    /\ submits = [stream |-> 0, create |-> 0]
    /\ sResult = <<>>

\* determine_status not called
NoStatus ==
    /\ metric_name = <<>>
    /\ status_score = 0
    /\ status = "none"

\* validate_jsonl not called
NoJsonl ==
    /\ jsonl = <<>>
    /\ lineNo = 0
    /\ warned = {}
    /\ valid = Pending

\* run_evaluation.main not started
NoRun ==
    /\ endpoint = "unset"
    /\ data_file = [exists |-> FALSE, lines |-> <<>>]
    /\ test_data = <<>>
    /\ rPc = "none"
    /\ clients = 0
    /\ evals = 0
    /\ eval_runs = <<>>
    /\ run_status = "none"
    /\ polled = "none"
    /\ listings = 0
    /\ exit_code = Pending

\* run_intent_evaluation.main not started
NoIntent ==
    /\ cases = <<>>
    /\ outcomes = <<>>
    /\ results = <<>>
    /\ passed = 0
    /\ iPc = "none"

\* live_agent_and_eval.main not started
NoMain ==
    /\ inputs = <<>>
    /\ transcript = <<>>
    /\ handled = <<>>
    /\ saved = Pending
    /\ mPc = "none"

NoScripts == NoStatus /\ NoJsonl /\ NoRun /\ NoIntent /\ NoMain

\* ---------------------------------------------------------------- inputs

\* c * n
Repeat(c, n) == [i \in 1..n |-> c]

ShortResponses == UNION {[1..n -> {"a", " "}] : n \in 0..MaxShort}
LongResponses == {Repeat("a", n) : n \in 0..MaxLen}
LengthResponses == ShortResponses \cup LongResponses
\* the responses whose length is within MaxOver of the default max_length
OverlongResponses ==
    {Repeat("a", n) : n \in (DefaultMaxLength - MaxOver)..(DefaultMaxLength + MaxOver)}

MinLengths == (-MaxCfg..MaxCfg) \cup {DefaultMinLength}
MaxLengths == (-MaxCfg..MaxCfg) \cup {DefaultMaxLength}

\* ---------------------------------------------------------------- length specification

\* ResponseLengthEvaluator(min_length, max_length) constructed; a response at hand
InitLength ==
    /\ min_length \in MinLengths
    /\ max_length \in MaxLengths
    /\ min_citations = DefaultMinCitations
    /\ response \in LengthResponses
    /\ lenResult = Pending
    /\ citResult = Pending
    /\ log = <<>>
    /\ attrs = ConstructedAttrs
    /\ NoCallers
    /\ NoAgent
    /\ NoScripts

\* evaluator(response=response)
CallResponseLength ==
    /\ lenResult = Pending
    /\ lenResult' = ResponseLengthCall(min_length, max_length, response)
    /\ UNCHANGED <<min_length, max_length, min_citations, response, citResult, sessVars, concVars, agentVars, scriptVars>>

NextLength == CallResponseLength

SpecLength == InitLength /\ [][NextLength]_vars

\* ResponseLengthEvaluator(min_length) or ResponseLengthEvaluator() constructed, max_length
\* left at its default; a response about as long as max_length at hand
InitOverlong ==
    /\ min_length \in {m \in MinLengths : m > 0}
    /\ max_length = DefaultMaxLength
    /\ min_citations = DefaultMinCitations
    /\ response \in OverlongResponses
    /\ lenResult = Pending
    /\ citResult = Pending
    /\ log = <<>>
    /\ attrs = ConstructedAttrs
    /\ NoCallers
    /\ NoAgent
    /\ NoScripts

NextOverlong == CallResponseLength

SpecOverlong == InitOverlong /\ [][NextOverlong]_vars

\* ---------------------------------------------------------------- citation specification

Fragments ==
    { <<"x">>, <<" ">>, <<"1">>, <<"[">>, <<"]">>, <<"(">>, <<")">>,
      <<"D", "o", "c", "u", "m", "e", "n", "t">>,
      <<"D", "o", "c", "u", "m", "e", "n", "t", " ", "1">>,
      <<"[", "1", "]">>,
      <<"(", "S", "o", "u", "r", "c", "e", " ", "1", ")">>,
      <<"(", "D", "o", "c", "u", "m", "e", "n", "t", " ", "1", ")">> }

RECURSIVE ResponsesOf(_)
ResponsesOf(n) ==
    IF n = 0 THEN {<<>>}
    ELSE LET prev == ResponsesOf(n - 1)
         IN  prev \cup {r \o f : r \in prev, f \in Fragments}

\* "See Document 1 and [2] for details (Source 3)"
ExampleResponse ==
    <<"S", "e", "e", " ", "D", "o", "c", "u", "m", "e", "n", "t", " ", "1", " ",
      "a", "n", "d", " ", "[", "2", "]", " ", "f", "o", "r", " ",
      "d", "e", "t", "a", "i", "l", "s", " ", "(", "S", "o", "u", "r", "c", "e", " ", "3", ")">>

CitationResponses == ResponsesOf(MaxFrags) \cup {ExampleResponse}

MinCitations == (-1..MaxMinCitations) \cup {WideMinCitations}

\* CitationCountEvaluator(min_citations) constructed; a response at hand
InitCitation ==
    /\ min_length = DefaultMinLength
    /\ max_length = DefaultMaxLength
    /\ min_citations \in MinCitations
    /\ response \in CitationResponses
    /\ lenResult = Pending
    /\ citResult = Pending
    /\ log = <<>>
    /\ attrs = ConstructedAttrs
    /\ NoCallers
    /\ NoAgent
    /\ NoScripts

\* evaluator(response=response)
CallCitationCount ==
    /\ citResult = Pending
    /\ citResult' = CitationCountCall(min_citations, response)
    /\ UNCHANGED <<min_length, max_length, min_citations, response, lenResult, sessVars, concVars, agentVars, scriptVars>>

NextCitation == CallCitationCount

SpecCitation == InitCitation /\ [][NextCitation]_vars

\* ---------------------------------------------------------------- session specification

SessLengthResponses == {Repeat("a", n) : n \in 0..MaxSessLen}
SessCitationResponses ==
    { <<>>,
      <<"[", "1", "]">>,
      <<"(", "D", "o", "c", "u", "m", "e", "n", "t", " ", "1", ")">> }
\* the extra keyword arguments a harness passes besides response
KwargSets == {{}, {"query", "context"}}
SessThresholds == (-1)..MaxSessCfg

\* one evaluator constructed with thresholds of the caller's choice; no call made yet
InitSession ==
    /\ \/ /\ min_length \in SessThresholds
          /\ max_length \in SessThresholds
          /\ min_citations = DefaultMinCitations
       \/ /\ min_length = DefaultMinLength
          /\ max_length = DefaultMaxLength
          /\ min_citations \in SessThresholds
    /\ response = <<>>
    /\ lenResult = Pending
    /\ citResult = Pending
    /\ log = <<>>
    /\ attrs = ConstructedAttrs
    /\ NoCallers
    /\ NoAgent
    /\ NoScripts

\* the log is the call log of the ResponseLengthEvaluator (CitationCountEvaluator) instance
LogOf(evaluator) == IF log = <<>> THEN TRUE ELSE log[1].evaluator = evaluator

\* evaluator(response=r, **kwargs) on the ResponseLengthEvaluator instance
SessionCallLength(r, kwargs) ==
    LET out == ResponseLengthInvoke(min_length, max_length, r, kwargs)
        after == LengthSelfAfterCall(ResponseLengthSelf(min_length, max_length), r)
    IN  /\ Len(log) < MaxCalls
        /\ LogOf("length")
        /\ response' = r
        /\ lenResult' = out
        /\ log' = Append(log, [evaluator |-> "length", response |-> r,
                               kwargs |-> kwargs, outcome |-> out])
        /\ min_length' = after.min_length
        /\ max_length' = after.max_length
        /\ attrs' = [attrs EXCEPT !.length = DOMAIN after]
        /\ UNCHANGED <<min_citations, citResult, concVars, agentVars, scriptVars>>

\* evaluator(response=r, **kwargs) on the CitationCountEvaluator instance
SessionCallCitation(r, kwargs) ==
    LET out == CitationCountInvoke(min_citations, r, kwargs)
        after == CitationSelfAfterCall(CitationCountSelf(min_citations), r)
    IN  /\ Len(log) < MaxCalls
        /\ LogOf("citation")
        /\ response' = r
        /\ citResult' = out
        /\ log' = Append(log, [evaluator |-> "citation", response |-> r,
                               kwargs |-> kwargs, outcome |-> out])
        /\ min_citations' = after.min_citations
        /\ attrs' = [attrs EXCEPT !.citation = DOMAIN after]
        /\ UNCHANGED <<min_length, max_length, lenResult, concVars, agentVars, scriptVars>>

NextSession ==
    \/ \E r \in SessLengthResponses, kwargs \in KwargSets : SessionCallLength(r, kwargs)
    \/ \E r \in SessCitationResponses, kwargs \in KwargSets : SessionCallCitation(r, kwargs)

SpecSession == InitSession /\ [][NextSession]_vars

\* ---------------------------------------------------------------- concurrent specification

Callers == 1..NumCallers

ConcLengthResponses == {<<>>, <<"a">>, <<"a", "a", "a">>}
ConcCitationResponses == SessCitationResponses
ConcCalls ==
    [evaluator : {"length"}, response : ConcLengthResponses]
        \cup [evaluator : {"citation"}, response : ConcCitationResponses]

\* the thresholds of the two shared instances
ConcConfigs ==
    { [min_length |-> 1, max_length |-> 2, min_citations |-> 2],
      [min_length |-> 2, max_length |-> 0, min_citations |-> 1] }

\* the local names of a call before any is bound
EmptyFrame ==
    [response |-> <<>>, length |-> 0, word_count |-> 0, is_within_range |-> FALSE,
     score |-> <<0, 1>>, k |-> 0, citation_count |-> 0, has_sufficient_citations |-> FALSE]

\* mutant of Slot: the names of a call live in the instance, one frame for all callers
SharedSlot(c) == 1

\* every invocation has its own frame for response, length, word_count, ...
Slot(c) == c

\* both instances constructed; each caller is about to make one call
InitConcurrent ==
    /\ \E cfg \in ConcConfigs :
          /\ min_length = cfg.min_length
          /\ max_length = cfg.max_length
          /\ min_citations = cfg.min_citations
    /\ response = <<>>
    /\ lenResult = Pending
    /\ citResult = Pending
    /\ log = <<>>
    /\ attrs = ConstructedAttrs
    /\ call \in [Callers -> ConcCalls]
    /\ pc = [c \in Callers |-> "idle"]
    /\ frames = [c \in Callers |-> EmptyFrame]
    /\ ret = [c \in Callers |-> Pending]
    /\ NoAgent
    /\ NoScripts

Local(c) == frames[Slot(c)]

\* caller c's step: its frame becomes f, its call moves to line
Step(c, f, line) ==
    /\ frames' = [frames EXCEPT ![Slot(c)] = f]
    /\ pc' = [pc EXCEPT ![c] = line]
    /\ UNCHANGED <<ret, call, min_length, max_length, min_citations, response,
                   lenResult, citResult, sessVars, agentVars, scriptVars>>

\* caller c's call ends with outcome out
Finish(c, out) ==
    /\ ret' = [ret EXCEPT ![c] = out]
    /\ pc' = [pc EXCEPT ![c] = "done"]
    /\ UNCHANGED <<frames, call, min_length, max_length, min_citations, response,
                   lenResult, citResult, sessVars, agentVars, scriptVars>>

\* evaluator(response=...): the argument is bound in a new frame
Enter(c) ==
    /\ pc[c] = "idle"
    /\ Step(c, [EmptyFrame EXCEPT !.response = call[c].response],
            IF call[c].evaluator = "length" THEN "L34" ELSE "C92")

\* length = len(response)
L34(c) ==
    /\ pc[c] = "L34"
    /\ Step(c, [Local(c) EXCEPT !.length = Len(Local(c).response)], "L35")

\* word_count = len(response.split())
L35(c) ==
    /\ pc[c] = "L35"
    /\ Step(c, [Local(c) EXCEPT !.word_count = WordCount(Local(c).response)], "L38")

\* is_within_range = self.min_length <= length <= self.max_length
L38(c) ==
    /\ pc[c] = "L38"
    /\ Step(c, [Local(c) EXCEPT !.is_within_range =
                    IsWithinRange(Local(c).length, min_length, max_length)], "L41")

\* the if / elif / else that sets score, or the ZeroDivisionError of its division
L41(c) ==
    /\ pc[c] = "L41"
    /\ LET score == LengthScore(Local(c).length, min_length, max_length)
       IN  IF score[2] = 0
           THEN Finish(c, Raised("ZeroDivisionError"))
           ELSE Step(c, [Local(c) EXCEPT !.score = score], "L48")

\* return {...}
L48(c) ==
    /\ pc[c] = "L48"
    /\ Finish(c, Returned([response_length_chars |-> Local(c).length,
                           response_length_words |-> Local(c).word_count,
                           response_length_within_range |-> Local(c).is_within_range,
                           response_length_score |->
                               Round2(Local(c).score[1], Local(c).score[2])]))

\* citation_count = 0
C92(c) ==
    /\ pc[c] = "C92"
    /\ Step(c, [Local(c) EXCEPT !.citation_count = 0, !.k = 1], "C93")

\* for pattern in patterns: citation_count += len(re.findall(pattern, response))
C93(c) ==
    /\ pc[c] = "C93"
    /\ IF Local(c).k \in DOMAIN Patterns
       THEN Step(c, [Local(c) EXCEPT
                        !.citation_count =
                            @ + FindallCount(Patterns[Local(c).k], Local(c).response, 1),
                        !.k = @ + 1], "C93")
       ELSE Step(c, Local(c), "C97")

\* has_sufficient_citations = citation_count >= self.min_citations
C97(c) ==
    /\ pc[c] = "C97"
    /\ Step(c, [Local(c) EXCEPT !.has_sufficient_citations =
                    HasSufficientCitations(Local(c).citation_count, min_citations)], "C100")

\* the if / elif / else that sets score; return {...}
C100(c) ==
    /\ pc[c] = "C100"
    /\ Finish(c, Returned([citation_count |-> Local(c).citation_count,
                           has_sufficient_citations |-> Local(c).has_sufficient_citations,
                           citation_score |->
                               CitationScore(Local(c).citation_count, min_citations)]))

NextConcurrent ==
    \E c \in Callers :
        \/ Enter(c)
        \/ L34(c)
        \/ L35(c)
        \/ L38(c)
        \/ L41(c)
        \/ L48(c)
        \/ C92(c)
        \/ C93(c)
        \/ C97(c)
        \/ C100(c)

SpecConcurrent == InitConcurrent /\ [][NextConcurrent]_vars

\* ---------------------------------------------------------------- agent specification
\* LiveAgentTester.send_and_receive(user_text) against the agent service. A text is a
\* sequence of characters; a message is [role, form, parts]: form "str" is a content
\* that is one string (parts holds it), form "dicts" a content that is a list of
\* dicts with a "text" key, form "objects" a list of objects with a text attribute.

UserText == <<"q">>
EarlierText == <<"o">>
DeltaTexts == {<<>>, <<"x">>, <<"y">>}
PartTexts == {<<>>, <<"m">>}
PartLists == UNION {[1..n -> PartTexts] : n \in 1..MaxParts}

UserMessage(t) == [role |-> "user", form |-> "str", parts |-> <<t>>]
AssistantMessage(form, parts) == [role |-> "assistant", form |-> form, parts |-> parts]

\* what the agent can answer to a run: no message, or one assistant message
NoReply == <<>>
Replies ==
    {NoReply} \cup {<<AssistantMessage("str", <<<<"m">>>>)>>}
              \cup {<<AssistantMessage(f, ps)>> : f \in {"dicts", "objects"}, ps \in PartLists}

\* the stream events other than a text delta
OtherEvents == {"response.error", "response.function_call", "response.created"}

\* "".join(accumulated)
RECURSIVE JoinEmpty(_)
JoinEmpty(texts) ==
    IF texts = <<>> THEN <<>> ELSE Head(texts) \o JoinEmpty(Tail(texts))

\* "\n".join(parts)
RECURSIVE JoinNewline(_)
JoinNewline(parts) ==
    IF parts = <<>> THEN <<>>
    ELSE IF Len(parts) = 1 THEN parts[1]
    ELSE parts[1] \o <<"\n">> \o JoinNewline(Tail(parts))

\* text = getattr(p, "text", None) or p.get("text") if isinstance(p, dict) else None:
\* the conditional expression binds weaker than or, so a part that is no dict
\* gives None, whatever its text attribute holds
PartText(form, p) == IF form = "dicts" THEN p ELSE <<>>

\* the loop over content: the parts whose text is truthy
CoalescedParts(form, ps) ==
    SelectSeq([i \in 1..Len(ps) |-> PartText(form, ps[i])], LAMBDA t : t # <<>>)

\* the text _get_last_assistant_message_text makes of one message
MessageText(m) ==
    IF m.form = "str" THEN m.parts[1] ELSE JoinNewline(CoalescedParts(m.form, m.parts))

\* _get_last_assistant_message_text on the listed messages: the text of the last
\* message whose role is "assistant", "" when there is none
RECURSIVE LastAssistantMessageText(_)
LastAssistantMessageText(msgs) ==
    IF msgs = <<>> THEN <<>>
    ELSE IF msgs[Len(msgs)].role = "assistant" THEN MessageText(msgs[Len(msgs)])
    ELSE LastAssistantMessageText(SubSeq(msgs, 1, Len(msgs) - 1))

InitAgent ==
    /\ min_length = DefaultMinLength
    /\ max_length = DefaultMaxLength
    /\ min_citations = DefaultMinCitations
    /\ response = <<>>
    /\ lenResult = Pending
    /\ citResult = Pending
    /\ log = <<>>
    /\ attrs = ConstructedAttrs
    /\ NoCallers
    /\ thread \in {<<>>, <<UserMessage(UserText), AssistantMessage("str", <<EarlierText>>)>>}
    /\ sPc = "start"
    /\ accumulated = <<>>
    /\ nEvents = 0
    /\ tryRaised = FALSE
    /\ streamActive = FALSE
    /\ syncStarted = FALSE
    /\ submits = [stream |-> 0, create |-> 0]
    /\ sResult = <<>>
    /\ NoScripts

AgentFrame == UNCHANGED <<min_length, max_length, min_citations, response, lenResult,
                          citResult, sessVars, concVars, scriptVars>>

\* except Exception: the try block is left, the sync fallback is next
Except ==
    /\ tryRaised' = TRUE
    /\ streamActive' = FALSE
    /\ sPc' = "fallback"

\* runs.stream(...) raises before the run is accepted
StreamOpenFails ==
    /\ sPc = "start"
    /\ Except
    /\ UNCHANGED <<thread, accumulated, nEvents, syncStarted, submits, sResult>>
    /\ AgentFrame

\* with runs.stream(thread_id, agent_id, messages=[user message]) as events
StreamOpen ==
    /\ sPc = "start"
    /\ sPc' = "streaming"
    /\ streamActive' = TRUE
    /\ thread' = Append(thread, UserMessage(UserText))
    /\ submits' = [submits EXCEPT !.stream = @ + 1]
    /\ UNCHANGED <<accumulated, nEvents, tryRaised, syncStarted, sResult>>
    /\ AgentFrame

\* for ev in stream, type "response.output_text.delta": accumulated.append(delta)
StreamDelta(delta) ==
    /\ sPc = "streaming"
    /\ nEvents < MaxEvents
    /\ accumulated' = Append(accumulated, delta)
    /\ nEvents' = nEvents + 1
    /\ UNCHANGED <<thread, sPc, tryRaised, streamActive, syncStarted, submits, sResult>>
    /\ AgentFrame

\* for ev in stream, any other type: printed at most
StreamOther(etype) ==
    /\ sPc = "streaming"
    /\ nEvents < MaxEvents
    /\ nEvents' = nEvents + 1
    /\ UNCHANGED <<thread, sPc, accumulated, tryRaised, streamActive, syncStarted,
                   submits, sResult>>
    /\ AgentFrame

\* the iteration raises; the agent may have answered the run by then
StreamFails(reply) ==
    /\ sPc = "streaming"
    /\ Except
    /\ thread' = thread \o reply
    /\ UNCHANGED <<accumulated, nEvents, syncStarted, submits, sResult>>
    /\ AgentFrame

\* the stream is exhausted and the with block is left
StreamEnd(reply) ==
    /\ sPc = "streaming"
    /\ sPc' = "streamed"
    /\ streamActive' = FALSE
    /\ thread' = thread \o reply
    /\ UNCHANGED <<accumulated, nEvents, tryRaised, syncStarted, submits, sResult>>
    /\ AgentFrame

\* return "".join(accumulated) if accumulated else ...
ReturnAccumulated ==
    /\ sPc = "streamed"
    /\ accumulated # <<>>
    /\ sResult' = JoinEmpty(accumulated)
    /\ sPc' = "returned"
    /\ UNCHANGED <<thread, accumulated, nEvents, tryRaised, streamActive, syncStarted,
                   submits>>
    /\ AgentFrame

\* ... else self._get_last_assistant_message_text(), still inside the try block
ReturnLastMessage ==
    /\ sPc = "streamed"
    /\ accumulated = <<>>
    /\ sResult' = LastAssistantMessageText(thread)
    /\ sPc' = "returned"
    /\ UNCHANGED <<thread, accumulated, nEvents, tryRaised, streamActive, syncStarted,
                   submits>>
    /\ AgentFrame

\* list_messages raises inside the try block
LastMessageFails ==
    /\ sPc = "streamed"
    /\ accumulated = <<>>
    /\ Except
    /\ UNCHANGED <<thread, accumulated, nEvents, syncStarted, submits, sResult>>
    /\ AgentFrame

\* run = runs.create(thread_id, agent_id, messages=[user message])
SyncCreate ==
    /\ sPc = "fallback"
    /\ syncStarted' = TRUE
    /\ thread' = Append(thread, UserMessage(UserText))
    /\ submits' = [submits EXCEPT !.create = @ + 1]
    /\ sPc' = "waiting"
    /\ UNCHANGED <<accumulated, nEvents, tryRaised, streamActive, sResult>>
    /\ AgentFrame

\* runs.wait(run_id, thread_id) returns
SyncWait(reply) ==
    /\ sPc = "waiting"
    /\ thread' = thread \o reply
    /\ sPc' = "waited"
    /\ UNCHANGED <<accumulated, nEvents, tryRaised, streamActive, syncStarted, submits,
                   sResult>>
    /\ AgentFrame

\* return self._get_last_assistant_message_text()
SyncReturn ==
    /\ sPc = "waited"
    /\ sResult' = LastAssistantMessageText(thread)
    /\ sPc' = "returned"
    /\ UNCHANGED <<thread, accumulated, nEvents, tryRaised, streamActive, syncStarted,
                   submits>>
    /\ AgentFrame

\* runs.create, runs.wait or list_messages of the fallback raises: no handler
SyncFails ==
    /\ sPc \in {"fallback", "waiting", "waited"}
    /\ syncStarted' = TRUE
    /\ sPc' = "raised"
    /\ UNCHANGED <<thread, accumulated, nEvents, tryRaised, streamActive, submits,
                   sResult>>
    /\ AgentFrame

NextAgent ==
    \/ StreamOpenFails
    \/ StreamOpen
    \/ \E delta \in DeltaTexts : StreamDelta(delta)
    \/ \E etype \in OtherEvents : StreamOther(etype)
    \/ \E reply \in Replies : StreamFails(reply)
    \/ \E reply \in Replies : StreamEnd(reply)
    \/ ReturnAccumulated
    \/ ReturnLastMessage
    \/ LastMessageFails
    \/ SyncCreate
    \/ \E reply \in Replies : SyncWait(reply)
    \/ SyncReturn
    \/ SyncFails

SpecAgent == InitAgent /\ [][NextAgent]_vars

\* ---------------------------------------------------------------- script specifications

\* no evaluator at work and no LiveAgentTester
NoCore ==
    /\ min_length = DefaultMinLength
    /\ max_length = DefaultMaxLength
    /\ min_citations = DefaultMinCitations
    /\ response = <<>>
    /\ lenResult = Pending
    /\ citResult = Pending
    /\ log = <<>>
    /\ attrs = ConstructedAttrs
    /\ NoCallers
    /\ NoAgent

\* ---------------------------------------------------------------- status specification
\* analyze_results.determine_status(score, metric_name). A metric name is a sequence
\* of characters; a score is kept in hundredths; the marks are named by the words of
\* the legend: "excellent" is the check mark, "acceptable" the warning sign and
\* "needs improvement" the cross.

\* str.lower() on the letters the metric names and the input lines use
LowerChar(c) ==
    CASE c = "S" -> "s"
      [] c = "R" -> "r"
      [] c = "Q" -> "q"
      [] c = "U" -> "u"
      [] c = "I" -> "i"
      [] c = "T" -> "t"
      [] OTHER -> c
Lower(name) == [i \in 1..Len(name) |-> LowerChar(name[i])]

GroundednessName == <<"g", "r", "o", "u", "n", "d", "e", "d", "n", "e", "s", "s">>
RelevanceName == <<"r", "e", "l", "e", "v", "a", "n", "c", "e">>
CoherenceName == <<"c", "o", "h", "e", "r", "e", "n", "c", "e">>
FluencyName == <<"f", "l", "u", "e", "n", "c", "y">>
SimilarityName == <<"s", "i", "m", "i", "l", "a", "r", "i", "t", "y">>

\* the thresholds dict of determine_status
ThresholdKeys == {GroundednessName, RelevanceName, CoherenceName, FluencyName, SimilarityName}
DefaultThreshold == [good |-> 400, acceptable |-> 300]
SimilarityThreshold == [good |-> 350, acceptable |-> 250]
\* thresholds.get(metric_name.lower(), {"good": 4.0, "acceptable": 3.0})
ThresholdOf(key) ==
    IF key = SimilarityName THEN SimilarityThreshold
    ELSE DefaultThreshold

determine_status(s, name) ==
    LET threshold == ThresholdOf(Lower(name))
    IN  IF s >= threshold.good THEN "excellent"
        ELSE IF s >= threshold.acceptable THEN "acceptable"
        ELSE "needs improvement"

\* the legend create_markdown_summary prints under the status table
LegendStatus(s) ==
    IF s >= 400 THEN "excellent"
    ELSE IF s >= 300 THEN "acceptable"
    ELSE "needs improvement"

MetricNames ==
    ThresholdKeys \cup
    { <<"S", "i", "m", "i", "l", "a", "r", "i", "t", "y">>,
      <<"R", "e", "l", "e", "v", "a", "n", "c", "e">>,
      <<"f", "1", "_", "s", "c", "o", "r", "e">> }
StatusScores == {25 * k : k \in 0..MaxScoreSteps}

InitStatus ==
    /\ NoCore
    /\ metric_name \in MetricNames
    /\ status_score \in StatusScores
    /\ status = "none"
    /\ NoJsonl /\ NoRun /\ NoIntent /\ NoMain

\* status = determine_status(mean, metric_name)
DetermineStatus ==
    /\ status = "none"
    /\ status' = determine_status(status_score, metric_name)
    /\ UNCHANGED <<coreVars, metric_name, status_score, jsonlVars, runVars, intentVars,
                   mainVars>>

NextStatus == DetermineStatus

SpecStatus == InitStatus /\ [][NextStatus]_vars

\* ---------------------------------------------------------------- jsonl specification
\* prepare_test_data.validate_jsonl(file_path). A line is a sequence of tokens: "{",
\* "}", ",", "[]", and one token per member of an object, named by its key (the
\* token "query" stands for "query": "..."); the values are not looked at by the
\* return value.

RequiredFields == {"query", "response", "context", "ground_truth"}
MemberTokens == RequiredFields \cup {"id", "tool_definitions", "tool_definitions_empty"}
FieldOrder == <<"query", "response", "context", "ground_truth", "id", "tool_definitions",
                "tool_definitions_empty">>

\* the members, separated by commas
RECURSIVE Members(_)
Members(keys) ==
    IF keys = <<>> THEN <<>>
    ELSE IF Len(keys) = 1 THEN keys
    ELSE <<keys[1], ",">> \o Members(Tail(keys))

\* the line json.dumps writes for an object with these keys
ObjectLine(keys) ==
    <<"{">> \o Members(SelectSeq(FieldOrder, LAMBDA k : k \in keys)) \o <<"}">>

\* json.loads(line): the keys of the object, whether the value is an object at all,
\* or a JSONDecodeError
WellFormedMembers(body) ==
    \/ body = <<>>
    \/ /\ Len(body) % 2 = 1
       /\ \A i \in 1..Len(body) :
             IF i % 2 = 1 THEN body[i] \in MemberTokens ELSE body[i] = ","
JsonLoads(line) ==
    IF line = <<"[]">>
    THEN [ok |-> TRUE, object |-> FALSE, keys |-> {}]
    ELSE IF /\ Len(line) >= 2
            /\ line[1] = "{"
            /\ line[Len(line)] = "}"
            /\ WellFormedMembers(SubSeq(line, 2, Len(line) - 1))
         THEN [ok |-> TRUE, object |-> TRUE,
               keys |-> {line[i] : i \in {j \in 2..(Len(line) - 1) : j % 2 = 0}}]
         ELSE [ok |-> FALSE, object |-> FALSE, keys |-> {}]

\* the lines a file can hold: objects with any of the required fields, with or
\* without another key, an array, a blank line, and broken objects
JsonlLines ==
    {ObjectLine(ks) : ks \in SUBSET RequiredFields}
    \cup {ObjectLine(RequiredFields \cup {"id"}), ObjectLine({"id"})}
    \cup {<<"[]">>, <<>>, <<"{", "query">>, <<"{", "query", ",", "}">>}
JsonlFiles == UNION {[1..n -> JsonlLines] : n \in 0..MaxJsonlLines}

InitJsonl ==
    /\ NoCore
    /\ jsonl \in JsonlFiles
    /\ lineNo = 0
    /\ warned = {}
    /\ valid = Pending
    /\ NoStatus /\ NoRun /\ NoIntent /\ NoMain

JsonlFrame == UNCHANGED <<coreVars, statusVars, runVars, intentVars, mainVars>>

\* one turn of for i, line in enumerate(f, 1): json.loads, the missing fields
ValidateLine ==
    /\ valid = Pending
    /\ lineNo < Len(jsonl)
    /\ LET i == lineNo + 1
           data == JsonLoads(jsonl[i])
       IN  /\ lineNo' = i
           /\ IF ~data.ok
              THEN valid' = Returned(FALSE) /\ UNCHANGED warned
              ELSE IF ~data.object
              THEN valid' = Raised("AttributeError") /\ UNCHANGED warned
              ELSE /\ valid' = valid
                   /\ warned' = IF RequiredFields \ data.keys # {}
                                 THEN warned \cup {i} ELSE warned
    /\ UNCHANGED jsonl
    /\ JsonlFrame

\* the file is exhausted: return True
ValidateEnd ==
    /\ valid = Pending
    /\ lineNo = Len(jsonl)
    /\ valid' = Returned(TRUE)
    /\ UNCHANGED <<jsonl, lineNo, warned>>
    /\ JsonlFrame

NextJsonl == ValidateLine \/ ValidateEnd

SpecJsonl == InitJsonl /\ [][NextJsonl]_vars

\* ---------------------------------------------------------------- run specification
\* run_evaluation.main and the eval run at the service. The token "tool_definitions"
\* of a line stands for a member with a non-empty list, "tool_definitions_empty" for
\* "tool_definitions": [].

\* run.status == "completed" or run.status == "failed"
IsFinalStatusCompletedOnly(s) == s = "completed"
IsFinalStatus(s) == s \in {"completed", "failed"}

\* the keys a loaded item answers to: "tool_definitions" in item
HasKey(item, key) ==
    IF key = "tool_definitions"
    THEN item.keys \cap {"tool_definitions", "tool_definitions_empty"} # {}
    ELSE key \in item.keys
\* item["tool_definitions"] is truthy
ToolDefinitionsTruthy(item) == "tool_definitions" \in item.keys

\* content_item of one loaded item: the keys it is given
ContentItemAnyToolDefinitions(item) ==
    {"query", "response"} \cup
        (IF HasKey(item, "tool_definitions") THEN {"tool_definitions"} ELSE {})
ContentItem(item) ==
    {"query", "response"} \cup
        (IF HasKey(item, "tool_definitions") /\ ToolDefinitionsTruthy(item)
         THEN {"tool_definitions"} ELSE {})

\* item["query"] and item["response"] can be read
Subscriptable(item) == item.object /\ HasKey(item, "query") /\ HasKey(item, "response")

RunLines ==
    {ObjectLine(ks) : ks \in {{"query", "response"},
                              {"query", "response", "tool_definitions"},
                              {"query", "response", "tool_definitions_empty"},
                              {"query", "response", "context", "tool_definitions"},
                              {"query", "tool_definitions"}}}
    \cup {<<"[]">>, <<>>, <<"{", "query">>}
RunFiles == UNION {[1..n -> RunLines] : n \in 0..MaxRunLines}

InitRun ==
    /\ NoCore
    /\ NoStatus /\ NoJsonl /\ NoIntent /\ NoMain
    /\ endpoint \in {"unset", "empty", "set"}
    /\ data_file \in {[exists |-> FALSE, lines |-> <<>>]}
                      \cup {[exists |-> TRUE, lines |-> f] : f \in RunFiles}
    /\ test_data = <<>>
    /\ rPc = "start"
    /\ clients = 0
    /\ evals = 0
    /\ eval_runs = <<>>
    /\ run_status = "none"
    /\ polled = "none"
    /\ listings = 0
    /\ exit_code = Pending

RunFrame == UNCHANGED <<coreVars, statusVars, jsonlVars, intentVars, mainVars>>

\* if not endpoint: return 1
CheckEndpoint ==
    /\ rPc = "start"
    /\ IF endpoint # "set"
       THEN rPc' = "done" /\ exit_code' = Returned(1)
       ELSE rPc' = "check_file" /\ UNCHANGED exit_code
    /\ UNCHANGED <<endpoint, data_file, test_data, clients, evals, eval_runs, run_status,
                   polled, listings>>
    /\ RunFrame

\* if not os.path.exists(data_file): return 1
CheckFile ==
    /\ rPc = "check_file"
    /\ IF ~data_file.exists
       THEN rPc' = "done" /\ exit_code' = Returned(1)
       ELSE rPc' = "loading" /\ UNCHANGED exit_code
    /\ UNCHANGED <<endpoint, data_file, test_data, clients, evals, eval_runs, run_status,
                   polled, listings>>
    /\ RunFrame

\* for line in f: test_data.append(json.loads(line))
LoadLine ==
    /\ rPc = "loading"
    /\ Len(test_data) < Len(data_file.lines)
    /\ LET data == JsonLoads(data_file.lines[Len(test_data) + 1])
       IN  IF data.ok
           THEN /\ test_data' = Append(test_data, data)
                /\ UNCHANGED <<rPc, exit_code>>
           ELSE /\ rPc' = "done"
                /\ exit_code' = Raised("JSONDecodeError")
                /\ UNCHANGED test_data
    /\ UNCHANGED <<endpoint, data_file, clients, evals, eval_runs, run_status, polled,
                   listings>>
    /\ RunFrame

\* the file is exhausted; the with statement constructs credential and clients
Connect ==
    /\ rPc = "loading"
    /\ Len(test_data) = Len(data_file.lines)
    /\ clients' = clients + 1
    /\ rPc' = "create_eval"
    /\ UNCHANGED <<endpoint, data_file, test_data, evals, eval_runs, run_status, polled,
                   listings, exit_code>>
    /\ RunFrame

\* eval_object = client.evals.create(...); client.evals.retrieve(eval_object.id)
CreateEval ==
    /\ rPc = "create_eval"
    /\ evals' = evals + 1
    /\ rPc' = "create_run"
    /\ UNCHANGED <<endpoint, data_file, test_data, clients, eval_runs, run_status, polled,
                   listings, exit_code>>
    /\ RunFrame

\* the loop that fills content_items, then client.evals.runs.create(...)
CreateRun ==
    /\ rPc = "create_run"
    /\ IF \A i \in 1..Len(test_data) : Subscriptable(test_data[i])
       THEN /\ eval_runs' =
                  Append(eval_runs, [i \in 1..Len(test_data) |-> ContentItem(test_data[i])])
            /\ run_status' = "queued"
            /\ rPc' = "polling"
            /\ UNCHANGED exit_code
       ELSE /\ rPc' = "done"
            /\ exit_code' = Raised("KeyError")
            /\ UNCHANGED <<eval_runs, run_status>>
    /\ UNCHANGED <<endpoint, data_file, test_data, clients, evals, polled, listings>>
    /\ RunFrame

\* run = client.evals.runs.retrieve(...); if run.status == ... : ... break
Poll ==
    /\ rPc = "polling"
    /\ polled' = run_status
    /\ rPc' = IF IsFinalStatus(run_status) THEN "listing" ELSE "sleeping"
    /\ UNCHANGED <<endpoint, data_file, test_data, clients, evals, eval_runs, run_status,
                   listings, exit_code>>
    /\ RunFrame

\* time.sleep(5)
Sleep ==
    /\ rPc = "sleeping"
    /\ rPc' = "polling"
    /\ UNCHANGED <<endpoint, data_file, test_data, clients, evals, eval_runs, run_status,
                   polled, listings, exit_code>>
    /\ RunFrame

\* output_items = list(client.evals.runs.output_items.list(...)); the items are printed
ListOutputItems ==
    /\ rPc = "listing"
    /\ listings' = listings + 1
    /\ rPc' = "listed"
    /\ UNCHANGED <<endpoint, data_file, test_data, clients, evals, eval_runs, run_status,
                   polled, exit_code>>
    /\ RunFrame

\* break; print("Evaluation complete!"); return 0
ReturnZero ==
    /\ rPc = "listed"
    /\ exit_code' = Returned(0)
    /\ rPc' = "done"
    /\ UNCHANGED <<endpoint, data_file, test_data, clients, evals, eval_runs, run_status,
                   polled, listings>>
    /\ RunFrame

\* the service takes up the eval run
RunStarts ==
    /\ run_status = "queued"
    /\ run_status' = "in_progress"
    /\ UNCHANGED <<endpoint, data_file, test_data, rPc, clients, evals, eval_runs, polled,
                   listings, exit_code>>
    /\ RunFrame

\* the service ends the eval run
RunEnds(s) ==
    /\ run_status \in {"queued", "in_progress"}
    /\ run_status' = s
    /\ UNCHANGED <<endpoint, data_file, test_data, rPc, clients, evals, eval_runs, polled,
                   listings, exit_code>>
    /\ RunFrame

\* the steps of main
MainRun ==
    \/ CheckEndpoint
    \/ CheckFile
    \/ LoadLine
    \/ Connect
    \/ CreateEval
    \/ CreateRun
    \/ Poll
    \/ Sleep
    \/ ListOutputItems
    \/ ReturnZero

NextRun ==
    \/ MainRun
    \/ RunStarts
    \/ \E s \in {"completed", "failed", "canceled"} : RunEnds(s)

SpecRun == InitRun /\ [][NextRun]_vars

\* main keeps running: a sleep ends and the next statement is executed
SpecRunFair == SpecRun /\ WF_vars(MainRun)

\* ---------------------------------------------------------------- intent specification
\* run_intent_evaluation.main from the loaded test_data on. A test case and a result
\* are records (dicts); the evaluator returns a dict or raises.

\* d.get(key, default)
Get(d, key, default) == IF key \in DOMAIN d THEN d[key] ELSE default

\* {**a, **b}
Merge(a, b) ==
    [k \in DOMAIN a \cup DOMAIN b |-> IF k \in DOMAIN b THEN b[k] ELSE a[k]]

IntentCases ==
    { [query |-> "q1", response |-> "r1"],
      [query |-> "q2", response |-> "r2", tool_definitions |-> "tools"],
      [response |-> "r3"] }
IntentData == UNION {[1..n -> IntentCases] : n \in 0..MaxCases}

\* what evaluator(**kwargs) can do: return a result dict, or raise
EvaluatorResults ==
    { [intent_resolution |-> 4, intent_resolution_result |-> "pass",
       intent_resolution_reason |-> "resolved"],
      [intent_resolution |-> 2, intent_resolution_result |-> "fail",
       intent_resolution_reason |-> "not resolved"],
      [intent_resolution_reason |-> ""] }
EvaluatorOutcomes ==
    {Returned(r) : r \in EvaluatorResults} \cup {Raised("Exception")}

\* results.append({"case": i, "query": query, **result})
ResultEntry(i, query, result) == Merge([case |-> i, query |-> query], result)
\* except Exception as e: results.append({"case": i, "query": query, "error": str(e)})
OnErrorSkip(rs, i, query, e) == rs
OnError(rs, i, query, e) == Append(rs, [case |-> i, query |-> query, error |-> e])

\* sum(1 for r in results if r.get("intent_resolution_result") == "pass")
PassedCount(rs) ==
    Cardinality({i \in 1..Len(rs) : Get(rs[i], "intent_resolution_result", "None") = "pass"})

InitIntent ==
    /\ NoCore
    /\ NoStatus /\ NoJsonl /\ NoRun /\ NoMain
    /\ cases \in IntentData
    /\ outcomes = <<>>
    /\ results = <<>>
    /\ passed = 0
    /\ iPc = "loop"

IntentFrame == UNCHANGED <<coreVars, statusVars, jsonlVars, runVars, mainVars>>

\* one turn of for i, item in enumerate(test_data, 1)
EvaluateCase(outcome) ==
    /\ iPc = "loop"
    /\ Len(outcomes) < Len(cases)
    /\ LET i == Len(outcomes) + 1
           query == Get(cases[i], "query", "")
       IN  /\ outcomes' = Append(outcomes, outcome)
           /\ results' =
                 IF outcome.outcome = "returned"
                 THEN Append(results, ResultEntry(i, query, outcome.record))
                 ELSE OnError(results, i, query, outcome.exception)
    /\ UNCHANGED <<cases, passed, iPc>>
    /\ IntentFrame

\* the summary after the loop; the results are saved
Summarize ==
    /\ iPc = "loop"
    /\ Len(outcomes) = Len(cases)
    /\ passed' = PassedCount(results)
    /\ iPc' = "done"
    /\ UNCHANGED <<cases, outcomes, results>>
    /\ IntentFrame

NextIntent ==
    \/ \E outcome \in EvaluatorOutcomes : EvaluateCase(outcome)
    \/ Summarize

SpecIntent == InitIntent /\ [][NextIntent]_vars

\* ---------------------------------------------------------------- main specification
\* live_agent_and_eval.main: the interactive loop, save_transcript_jsonl and the
\* upload. A line and a text are sequences of characters; send_and_receive returns a
\* text or raises (SpecAgent), or is interrupted from the keyboard.

\* str.strip()
RECURSIVE LStrip(_)
LStrip(s) == IF s # <<>> /\ IsSpace(Head(s)) THEN LStrip(Tail(s)) ELSE s
RECURSIVE RStrip(_)
RStrip(s) ==
    IF s # <<>> /\ IsSpace(s[Len(s)]) THEN RStrip(SubSeq(s, 1, Len(s) - 1)) ELSE s
Strip(s) == RStrip(LStrip(s))

\* ("/exit", "exit", "quit", "/quit")
ExitCommands ==
    { <<"/", "e", "x", "i", "t">>,
      <<"e", "x", "i", "t">>,
      <<"q", "u", "i", "t">>,
      <<"/", "q", "u", "i", "t">> }

\* what the user can type at the prompt
InputLines ==
    { <<>>,
      <<" ">>,
      <<"/", "e", "x", "i", "t">>,
      <<"Q", "U", "I", "T">>,
      <<" ", "e", "x", "i", "t", " ">>,
      <<"h", "i">>,
      <<" ", "h", "i">>,
      <<"e", "x", "i", "t", " ", "n", "o", "w">> }
\* what send_and_receive can return
AssistantTexts == {<<>>, <<"o", "k">>}

\* Turn(user=user_text, assistant=assistant_text)
Turn(user_text, assistant_text) == [user |-> user_text, assistant |-> assistant_text]
\* tester.add_turn: self.transcript.append(Turn(...))
add_turn(ts, user_text, assistant_text) == Append(ts, Turn(user_text, assistant_text))
\* save_transcript_jsonl: one line {"query": t.user, "response": t.assistant} per turn
TranscriptLines(ts) ==
    [i \in 1..Len(ts) |-> [query |-> ts[i].user, response |-> ts[i].assistant]]

InitMain ==
    /\ NoCore
    /\ NoStatus /\ NoJsonl /\ NoRun /\ NoIntent
    /\ inputs = <<>>
    /\ transcript = <<>>
    /\ handled = <<>>
    /\ saved = Pending
    /\ mPc = "input"

MainFrame == UNCHANGED <<coreVars, statusVars, jsonlVars, runVars, intentVars>>

\* user_text = input("you> ").strip(); empty: continue; an exit command: break
ReadLine(line) ==
    /\ mPc = "input"
    /\ Len(inputs) < MaxInputs
    /\ inputs' = Append(inputs, line)
    /\ LET user_text == Strip(line)
       IN  mPc' = IF user_text = <<>> THEN "input"
                  ELSE IF Lower(user_text) \in ExitCommands THEN "save"
                  ELSE "send"
    /\ UNCHANGED <<transcript, handled, saved>>
    /\ MainFrame

\* KeyboardInterrupt while input() or send_and_receive waits: the except clause
Interrupted ==
    /\ mPc \in {"input", "send"}
    /\ mPc' = "save"
    /\ UNCHANGED <<inputs, transcript, handled, saved>>
    /\ MainFrame

\* input() raises EOFError: main has no handler
InputEnds ==
    /\ mPc = "input"
    /\ mPc' = "eof"
    /\ UNCHANGED <<inputs, transcript, handled, saved>>
    /\ MainFrame

\* assistant_text = tester.send_and_receive(user_text) returns
SendReturns(assistant_text) ==
    /\ mPc = "send"
    /\ handled' = Append(handled, Turn(Strip(inputs[Len(inputs)]), assistant_text))
    /\ mPc' = "add_turn"
    /\ UNCHANGED <<inputs, transcript, saved>>
    /\ MainFrame

\* tester.send_and_receive(user_text) raises an Exception: main has no handler
SendRaises ==
    /\ mPc = "send"
    /\ mPc' = "raised"
    /\ UNCHANGED <<inputs, transcript, handled, saved>>
    /\ MainFrame

\* tester.add_turn(user_text, assistant_text)
AddTurn ==
    /\ mPc = "add_turn"
    /\ LET t == handled[Len(handled)]
       IN  transcript' = add_turn(transcript, t.user, t.assistant)
    /\ mPc' = "input"
    /\ UNCHANGED <<inputs, handled, saved>>
    /\ MainFrame

\* tester.save_transcript_jsonl(jsonl_path)
SaveTranscript ==
    /\ mPc = "save"
    /\ saved' = Returned(TranscriptLines(transcript))
    /\ mPc' = "upload"
    /\ UNCHANGED <<inputs, transcript, handled>>
    /\ MainFrame

\* upload_eval_intent_resolution(jsonl_path, eval_name)
Upload ==
    /\ mPc = "upload"
    /\ mPc' = "done"
    /\ UNCHANGED <<inputs, transcript, handled, saved>>
    /\ MainFrame

NextMain ==
    \/ \E line \in InputLines : ReadLine(line)
    \/ Interrupted
    \/ InputEnds
    \/ \E assistant_text \in AssistantTexts : SendReturns(assistant_text)
    \/ SendRaises
    \/ AddTurn
    \/ SaveTranscript
    \/ Upload

SpecMain == InitMain /\ [][NextMain]_vars

\* ---------------------------------------------------------------- properties

LenReturned == lenResult.outcome = "returned"
CitReturned == citResult.outcome = "returned"
LenRec == lenResult.record
CitRec == citResult.record

\* the start positions of the non-overlapping left-to-right matches of pat in s: a
\* position where pat matches and that lies inside no earlier chosen match
MatchStarts(pat, s) == {i \in 1..Len(s) : MatchFrom(pat, 1, s, i) # 0}
LeftToRightMatches(pat, s) ==
    LET starts == MatchStarts(pat, s)
        after == [i \in starts |-> MatchFrom(pat, 1, s, i)]
    IN  CHOOSE S \in SUBSET starts :
            S = {i \in starts : \A j \in S : ~(j < i /\ i < after[j])}

\* every matched span <<first, after-last>> of any of the four patterns
AllSpans(s) ==
    {<<i, MatchFrom(Patterns[k], 1, s, i)>> : k \in 1..Len(Patterns), i \in 1..Len(s)}
        \ {<<i, 0>> : i \in 1..Len(s)}
\* a citation occurrence: a matched span that lies inside no other matched span
CitationOccurrences(s) ==
    {sp \in AllSpans(s) :
        \A other \in AllSpans(s) :
            other = sp \/ ~(other[1] <= sp[1] /\ sp[2] <= other[2])}

\* C1: every response_length_score a call returns lies in [0.0, 5.0], whatever
\* min_length and max_length the evaluator was constructed with.
C1_LengthScoreInRange ==
    LenReturned => LenRec.response_length_score \in 0..500

\* C2: every citation_score a call returns lies in [0.0, 5.0], whatever min_citations
\* the evaluator was constructed with.
C2_CitationScoreInRange ==
    CitReturned => CitRec.citation_score \in 0..500

\* C2 witness: a non-positive min_citations and enough citations to reach the cap
C2_Witness ==
    /\ CitReturned
    /\ min_citations <= 0
    /\ CitRec.citation_count >= 5
    /\ CitRec.citation_score = 500

\* C3: citation_count is the sum over the four patterns of the number of
\* non-overlapping left-to-right matches of that pattern, each pattern run over the
\* whole response and nothing deduplicated; it is a natural number.
C3_CountIsSumOverPatterns ==
    CitReturned =>
        /\ CitRec.citation_count \in Nat
        /\ CitRec.citation_count =
              Cardinality(LeftToRightMatches(PatDocument, response))
            + Cardinality(LeftToRightMatches(PatBracket, response))
            + Cardinality(LeftToRightMatches(PatParenSource, response))
            + Cardinality(LeftToRightMatches(PatParenDocument, response))

\* C3 witness: three patterns match in one response, one of them inside another's match
C3_Witness ==
    /\ CitReturned
    /\ MatchStarts(PatBracket, response) # {}
    /\ MatchStarts(PatParenDocument, response) # {}
    /\ CitRec.citation_count = 3

\* C4: no substring is counted under two patterns: citation_count is the number of
\* distinct citation occurrences of the response.
C4_OneCountPerOccurrence ==
    CitReturned => CitRec.citation_count = Cardinality(CitationOccurrences(response))

\* C5: with min_length > 0 and len(response) < min_length the score is
\* min(3, 3 * length / min_length) rounded to 2 decimals, within [0, 3]; min_length = 50
\* and 25 characters give 1.5.
C5_TooShortScore ==
    (LenReturned /\ min_length > 0 /\ Len(response) < min_length) =>
        /\ LenRec.response_length_score =
              (IF 3 * Len(response) > 3 * min_length
               THEN 300
               ELSE Round2(3 * Len(response), min_length))
        /\ LenRec.response_length_score \in 0..300
        /\ (min_length = 50 /\ Len(response) = 25 => LenRec.response_length_score = 150)

\* C5 witness: the 25-character response under min_length = 50
C5_Witness ==
    /\ LenReturned
    /\ min_length = 50
    /\ Len(response) = 25
    /\ LenRec.response_length_score = 150

\* max(0, 5 - 2 * (length - maxl) / maxl) rounded to 2 decimals, maxl > 0
DecayScore(length, maxl) ==
    IF 5 * maxl - 2 * (length - maxl) < 0
    THEN 0
    ELSE Round2(5 * maxl - 2 * (length - maxl), maxl)

\* C6 as stated: with min_length > 0 and max_length > 0, also when
\* min_length > max_length, a response longer than max_length scores
\* max(0, 5 - 2 * (length - max_length) / max_length) rounded to 2 decimals.
C6_TooLongScoreAsStated ==
    (LenReturned /\ min_length > 0 /\ max_length > 0 /\ Len(response) > max_length) =>
        LenRec.response_length_score = DecayScore(Len(response), max_length)

\* C6 amended: the same, for a response that is longer than max_length and not
\* shorter than min_length (the too-short rule is tried first).
C6_TooLongScore ==
    (/\ LenReturned
     /\ min_length > 0
     /\ max_length > 0
     /\ Len(response) > max_length
     /\ Len(response) >= min_length) =>
        LenRec.response_length_score = DecayScore(Len(response), max_length)

\* C6 witness: min_length > max_length and a response beyond both, partly penalised
C6_Witness ==
    /\ LenReturned
    /\ max_length > 0
    /\ min_length > max_length
    /\ Len(response) >= min_length
    /\ LenRec.response_length_score \notin {0, 500}

\* C7: response_length_within_range is true exactly when
\* min_length <= len(response) <= max_length, and then the score is exactly 5.0;
\* min_length = 50, max_length = 1000 and 50 characters give 5.0 and true.
C7_WithinRange ==
    LenReturned =>
        /\ LenRec.response_length_within_range
              <=> (min_length <= Len(response) /\ Len(response) <= max_length)
        /\ LenRec.response_length_within_range => LenRec.response_length_score = 500
        /\ (min_length = 50 /\ max_length = 1000 /\ Len(response) = 50) =>
              (LenRec.response_length_within_range /\ LenRec.response_length_score = 500)

\* C7 witness: the 50-character response under the default thresholds
C7_Witness ==
    /\ LenReturned
    /\ min_length = 50
    /\ max_length = 1000
    /\ Len(response) = 50
    /\ LenRec.response_length_within_range

\* C8: with min_citations > 0 the score is 0 for no citation,
\* 3 * citation_count / min_citations below min_citations, and
\* min(5, 3 + 0.5 * (citation_count - min_citations)) from min_citations on, rounded
\* to 2 decimals; min_citations = 1 and 3 citations give 4.0.
C8_CitationScore ==
    (CitReturned /\ min_citations > 0) =>
        LET c == CitRec.citation_count
            bonus == 300 + 50 * (c - min_citations)
        IN  /\ c = 0 => CitRec.citation_score = 0
            /\ (0 < c /\ c < min_citations) =>
                  CitRec.citation_score = Round2(3 * c, min_citations)
            /\ c >= min_citations =>
                  CitRec.citation_score = (IF bonus > 500 THEN 500 ELSE bonus)
            /\ (min_citations = 1 /\ c = 3) => CitRec.citation_score = 400

\* C8 witness: "See Document 1 and [2] for details (Source 3)" under min_citations = 1
C8_Witness ==
    /\ CitReturned
    /\ response = ExampleResponse
    /\ min_citations = 1
    /\ CitRec.citation_count = 3
    /\ CitRec.citation_score = 400

\* C9: a response with no citation-like substring gets citation_count = 0,
\* citation_score = 0.0 and has_sufficient_citations = false under every min_citations
\* that construction accepts.
C9_NoCitations ==
    (CitReturned /\ AllSpans(response) = {}) =>
        /\ CitRec.citation_count = 0
        /\ CitRec.citation_score = 0
        /\ CitRec.has_sufficient_citations = FALSE

\* C10: the empty response gets response_length_chars = 0, response_length_score = 0.0
\* and response_length_within_range = (min_length == 0) under every configuration
\* that construction accepts.
C10_EmptyResponse ==
    (LenReturned /\ response = <<>>) =>
        /\ LenRec.response_length_chars = 0
        /\ LenRec.response_length_score = 0
        /\ LenRec.response_length_within_range = (min_length = 0)

\* C11: an evaluator with min_length <= 0, or with min_citations <= 0, is rejected at
\* construction, so no call is ever made on an evaluator with such a threshold.
C11_NonPositiveRejected ==
    /\ lenResult.outcome # "pending" => min_length > 0
    /\ citResult.outcome # "pending" => min_citations > 0

\* C12: scoring is total: a call on a constructed evaluator returns a record and never
\* raises; no division has a zero divisor.
C12_ScoringTotal ==
    /\ lenResult.outcome # "raised"
    /\ citResult.outcome # "raised"

\* C14: has_sufficient_citations is true exactly when citation_count >= min_citations.
C14_HasSufficient ==
    CitReturned =>
        (CitRec.has_sufficient_citations <=> CitRec.citation_count >= min_citations)

\* C14 witness: exactly min_citations citations, which is sufficient
C14_Witness ==
    /\ CitReturned
    /\ min_citations > 1
    /\ CitRec.citation_count = min_citations
    /\ CitRec.has_sufficient_citations

\* the maximal whitespace-delimited tokens of s, as <<first, last>> positions
Tokens(s) ==
    {<<i, j>> \in (1..Len(s)) \X (1..Len(s)) :
        /\ i <= j
        /\ \A k \in i..j : s[k] \notin WhitespaceChars
        /\ (i = 1 \/ s[i - 1] \in WhitespaceChars)
        /\ (j = Len(s) \/ s[j + 1] \in WhitespaceChars)}

\* C15: response_length_chars is the number of characters of the response and
\* response_length_words the number of its maximal whitespace-delimited tokens, 0 for
\* an empty or all-whitespace response.
C15_CharsAndWords ==
    LenReturned =>
        /\ LenRec.response_length_chars = Len(response)
        /\ LenRec.response_length_chars >= 0
        /\ LenRec.response_length_words = Cardinality(Tokens(response))
        /\ (\A k \in 1..Len(response) : response[k] \in WhitespaceChars) =>
              LenRec.response_length_words = 0

\* C15 witness: two tokens after a leading blank
C15_Witness ==
    /\ LenReturned
    /\ Len(response) > 0
    /\ response[1] = " "
    /\ LenRec.response_length_words = 2

\* the score of the call on the response one character longer
NextLongerScore ==
    ResponseLengthCall(min_length, max_length, response \o <<"a">>).record.response_length_score

\* C13: for 0 < min_length <= max_length the score does not decrease with the length
\* on [0, min_length], is 5.0 on [min_length, max_length] and does not increase with
\* the length beyond max_length, rounding included.
C13_Monotone ==
    (LenReturned /\ 0 < min_length /\ min_length <= max_length) =>
        /\ Len(response) < min_length =>
              LenRec.response_length_score <= NextLongerScore
        /\ (min_length <= Len(response) /\ Len(response) <= max_length) =>
              LenRec.response_length_score = 500
        /\ Len(response) > max_length =>
              LenRec.response_length_score >= NextLongerScore

\* C13 witness: beyond max_length, where one more character lowers a positive score
C13_Witness ==
    /\ LenReturned
    /\ 0 < min_length
    /\ min_length <= max_length
    /\ Len(response) > max_length
    /\ NextLongerScore > 0
    /\ LenRec.response_length_score > NextLongerScore

\* C16: two calls on one evaluator with the same response and different extra keyword
\* arguments return identical records, and no extra field makes a call fail.
C16_KwargsIgnored ==
    /\ \A i, j \in DOMAIN log :
          (log[i].response = log[j].response /\ log[i].kwargs # log[j].kwargs) =>
              log[i].outcome = log[j].outcome
    /\ \A i \in DOMAIN log :
          log[i].kwargs # {} => log[i].outcome # Raised("TypeError")

\* C16 witness: the same response scored with and without extra fields, on either evaluator
C16_Witness ==
    \E i, j \in DOMAIN log :
        /\ log[i].response = log[j].response
        /\ log[i].kwargs = {}
        /\ log[j].kwargs # {}
        /\ log[j].outcome.outcome = "returned"

\* C17: two calls with an identical response, anywhere in a sequence of calls on one
\* instance, yield identical records: the result does not depend on earlier calls.
C17_Idempotent ==
    \A i, j \in DOMAIN log :
        (i < j /\ log[i].response = log[j].response /\ log[i].kwargs = log[j].kwargs) =>
            log[i].outcome = log[j].outcome

\* C17 witness: the first response scored again after a call with another response
C17_Witness ==
    /\ Len(log) >= 3
    /\ log[1].response = log[3].response
    /\ log[1].response # log[2].response
    /\ log[1].kwargs = log[3].kwargs
    /\ log[3].outcome.outcome = "returned"

\* C19: a call leaves the evaluator as constructed: min_length, max_length and
\* min_citations keep their values and the instance gains no attribute (it keeps no
\* reference to the record it returned).
C19_Frame ==
    [][/\ min_length' = min_length
       /\ max_length' = max_length
       /\ min_citations' = min_citations
       /\ attrs' = attrs]_vars

\* C19 witness: several calls made, the instance holding only what __init__ set
C19_Witness ==
    /\ Len(log) >= 2
    /\ log[1].response # log[2].response
    /\ attrs.length = {"min_length", "max_length"}
    /\ attrs.citation = {"min_citations"}

\* the outcome of caller c's call when it runs alone
AloneOutcome(c) ==
    IF call[c].evaluator = "length"
    THEN ResponseLengthCall(min_length, max_length, call[c].response)
    ELSE CitationCountCall(min_citations, call[c].response)

\* C18: under every interleaving of the steps of concurrent calls on the same
\* instance, each call returns exactly the record it returns when run alone.
C18_ConcurrentCalls ==
    \A c \in DOMAIN pc : pc[c] = "done" => ret[c] = AloneOutcome(c)

\* C18 witness: two calls on the same instance with different responses, the second
\* begun before the first returned, both finished
C18_Witness ==
    \E c, d \in DOMAIN pc :
        /\ c # d
        /\ call[c].evaluator = call[d].evaluator
        /\ call[c].response # call[d].response
        /\ pc[c] = "done"
        /\ pc[d] \notin {"idle", "done"}
        /\ ret[c].outcome = "returned"

\* the text the latest assistant message of the thread holds: the string itself, or
\* the texts of its parts that have one, joined by newlines
TextOfMessage(m) ==
    IF m.form = "str" THEN m.parts[1]
    ELSE JoinNewline(SelectSeq(m.parts, LAMBDA t : t # <<>>))
RECURSIVE LatestAssistantText(_)
LatestAssistantText(msgs) ==
    IF msgs = <<>> THEN <<>>
    ELSE IF msgs[Len(msgs)].role = "assistant" THEN TextOfMessage(msgs[Len(msgs)])
    ELSE LatestAssistantText(SubSeq(msgs, 1, Len(msgs) - 1))

\* C20: the synchronous fallback is started if and only if the streaming attempt
\* raised an exception, and only once the streaming attempt is over; a call that
\* returns gives the concatenated deltas when deltas were streamed and the fallback
\* was not used, and the text of the latest assistant message of the thread otherwise
C20_FallbackAndText ==
    /\ syncStarted => tryRaised /\ ~streamActive
    /\ sPc \in {"returned", "raised"} => (syncStarted <=> tryRaised)
    /\ sPc = "returned" =>
          sResult = IF ~syncStarted /\ accumulated # <<>>
                    THEN JoinEmpty(accumulated)
                    ELSE LatestAssistantText(thread)

\* C29: for 0 < min_length <= max_length, response_length_score is 5.0 if and only
\* if response_length_within_range is true: no response whose length is outside
\* [min_length, max_length] scores 5.0 after the rounding to 2 decimals.
C29_PerfectIffWithinRange ==
    (LenReturned /\ 0 < min_length /\ min_length <= max_length) =>
        (LenRec.response_length_score = 500 <=> LenRec.response_length_within_range)

\* C25: a call of send_and_receive submits the user's message at most once, on every
\* path: no call makes both a runs.stream submission and a runs.create submission.
C25_SubmittedAtMostOnce ==
    /\ submits.stream + submits.create <= 1
    /\ ~(submits.stream > 0 /\ submits.create > 0)

\* C21: for every metric name and score the status of determine_status is the mark
\* the legend gives: excellent exactly when score >= 4.0, acceptable exactly when
\* 3.0 <= score < 4.0, needs improvement exactly when score < 3.0.
C21_StatusAgreesWithLegend ==
    status # "none" => status = LegendStatus(status_score)

\* a line that violates a condition: it does not parse, or it lacks a required field
LineViolates(line) ==
    LET data == JsonLoads(line)
    IN  ~data.ok \/ ~data.object \/ RequiredFields \ data.keys # {}

\* C22: validate_jsonl returns True only if every line parses as JSON and holds the
\* four required fields, and returns False as soon as a line violates either
\* condition: at the first such line.
C22_FormatAndFields ==
    valid.outcome = "returned" =>
        IF \A i \in 1..Len(jsonl) : ~LineViolates(jsonl[i])
        THEN valid.record = TRUE
        ELSE /\ valid.record = FALSE
             /\ LineViolates(jsonl[lineNo])
             /\ \A i \in 1..(lineNo - 1) : ~LineViolates(jsonl[i])

\* main of run_evaluation has left the polling loop
LoopLeft == rPc \in {"listing", "listed"} \/ exit_code = Returned(0)

\* the polling loop is left only on a poll that observed completed or failed and is
\* left on every such poll; the output items are listed at most once, and only after
\* such a poll; a canceled run keeps main from returning
C23_LoopSafety ==
    /\ LoopLeft => polled \in {"completed", "failed"}
    /\ (polled \in {"completed", "failed"} /\ rPc # "done") => LoopLeft
    /\ listings <= 1
    /\ listings = 1 <=> (rPc = "listed" \/ exit_code = Returned(0))
    /\ run_status = "canceled" => (exit_code = Pending /\ listings = 0 /\ ~LoopLeft)

C24_ExitCode ==
    /\ (exit_code.outcome = "returned" /\ run_status = "failed") => exit_code.record # 0
    /\ exit_code = Returned(0) => run_status = "completed"

\* the line holds a non-empty tool_definitions value
LineHasToolDefinitions(line) == \E i \in 1..Len(line) : line[i] = "tool_definitions"

\* C28: with AZURE_AI_PROJECT_ENDPOINT unset or the data file missing main returns 1
\* and constructs no client and creates no evaluation and no eval run; an eval run is
\* created only after every line of the data file was parsed, and it carries one
\* content item per line, in file order, each with query and response, and with
\* tool_definitions exactly when the line has a non-empty tool_definitions value.
C28_RunCreation ==
    /\ (endpoint = "unset" \/ ~data_file.exists) =>
          /\ clients = 0 /\ evals = 0 /\ eval_runs = <<>>
          /\ rPc = "done" => exit_code = Returned(1)
    /\ eval_runs # <<>> =>
          /\ Len(eval_runs) = 1
          /\ Len(test_data) = Len(data_file.lines)
          /\ Len(eval_runs[1]) = Len(data_file.lines)
          /\ \A i \in 1..Len(data_file.lines) :
                /\ {"query", "response"} \subseteq eval_runs[1][i]
                /\ "tool_definitions" \in eval_runs[1][i]
                      <=> LineHasToolDefinitions(data_file.lines[i])

\* C28 witness: a run created from two lines, one with tool definitions and one with
\* an empty tool_definitions list
C28_Witness ==
    /\ eval_runs # <<>>
    /\ Len(data_file.lines) = 2
    /\ LineHasToolDefinitions(data_file.lines[1])
    /\ "tool_definitions_empty" \in test_data[2].keys

\* C27: a failure of the evaluator on one test case does not stop the run: after the
\* loop results holds exactly one entry per loaded test case, in input order with
\* case = 1..n, an entry has an error field exactly for the cases whose evaluator
\* call raised, and the passed count reported never exceeds the number of entries.
C27_OneEntryPerCase ==
    iPc = "done" =>
        /\ Len(results) = Len(cases)
        /\ \A i \in 1..Len(results) :
              /\ results[i].case = i
              /\ results[i].query = Get(cases[i], "query", "")
              /\ ("error" \in DOMAIN results[i]) <=> (outcomes[i].outcome = "raised")
        /\ passed <= Len(results)

\* C27 witness: the evaluator raised on the first case of three and passed a later one
C27_Witness ==
    /\ iPc = "done"
    /\ Len(cases) = 3
    /\ outcomes[1].outcome = "raised"
    /\ passed > 0

\* C26: the transcript holds exactly one Turn per non-empty, non-exit input line for
\* which send_and_receive returned, in input order, and however the interactive loop
\* ends (an exit command, KeyboardInterrupt, an exception raised from
\* send_and_receive) the transcript collected so far is written to the JSONL file,
\* one line per turn in order.
C26_TranscriptSaved ==
    /\ mPc \in {"save", "upload", "done", "raised"} =>
          /\ transcript = handled
          /\ \A i \in 1..Len(transcript) :
                transcript[i].user # <<>> /\ Lower(transcript[i].user) \notin ExitCommands
    /\ mPc \in {"done", "raised"} => saved = Returned(TranscriptLines(handled))

====
